---- MODULE Spec2Model ----
(***************************************************************************)
(* Plugin registry, loader, hot-reload watcher and command dispatcher of   *)
(* boo_bot (plugins/plugin_manager.py, plugins/plugin_interface.py,        *)
(* plugins/core/plugin.py), as a state machine over the asyncio event      *)
(* loop: every `await` on plugin code is a point where another coroutine   *)
(* of the loop may run.                                                    *)
(***************************************************************************)
EXTENDS Integers, Sequences, FiniteSets, TLC

VARIABLES
    file,            \* plugins_dir/<name>/plugin.py : exists, quality, version
    plugins,         \* PluginManager.plugins : entries of the dict, in insertion order
    dk_size,         \* size of the hash table behind PluginManager.plugins
    failed_plugins,  \* PluginManager.failed_plugins : key -> error ("" when absent)
    gen,             \* number of plugin objects built so far per name (object identity)
    disc,            \* discover_and_load_plugins : position of the loop and `results`
    queue,           \* coroutines handed to the loop by run_coroutine_threadsafe
    tasks,           \* coroutines of the loop suspended inside the manager
    disp,            \* the PluginManager.handle_command call in flight
    now,             \* last value read from time.time()
    last_modified,   \* PluginFileHandler.last_modified
    events,          \* number of file system events so far
    burst,           \* per path: the burst of modification events in progress
    off,             \* plugin objects disabled by disable_plugin, not enabled since
    trace,           \* of the dispatch in flight: registry at its start, calls made
    cleaned,         \* per plugin object: the number of calls of its cleanup
    added,           \* the keys of plugins in the order they were inserted
    bot,             \* the host bot (DebugMatrixBot) and the text event it is handling
    yt,              \* the transcript cache of the host bot, YouTubeProcessor or YouTubePlugin
    cfg              \* config/plugins.yaml, its backup and the last set_plugin_setting call

\* the plugin manager's part of the state
mvars == <<file, plugins, dk_size, failed_plugins, gen, disc, queue, tasks, disp,
           now, last_modified, events, burst, off, trace, cleaned,
           added>>

vars == <<mvars, bot, yt, cfg>>

----------------------------------------------------------------------------
\* Bounds of the model

NumPlugins == 2       \* plugin directories 1..NumPlugins
MaxGen == 2           \* plugin objects built per name
MaxTasks == 2         \* coroutines scheduled or running at once
MaxEvents == 1        \* file system events while commands are dispatched
MaxBurst == 3         \* modification events of the watcher alone
MaxTime == 4          \* largest clock value
TicksPerSecond == 2   \* clock resolution

Names == 1..NumPlugins
Core == 1             \* the directory of CorePlugin
Stem == 0             \* Path("plugin.py").stem, the key "plugin"
FailKeys == Names \cup {Stem}
None == 0             \* absent timestamp; clock values start at 1

Ping == "ping"        \* a command every plugin claims
ReloadCmd == "reload" \* claimed by CorePlugin only
Commands == {Ping, ReloadCmd}

Quality == {"ok", "import_error", "no_class", "two_classes", "init_false", "init_raise"}
NoError == ""

debounce_time == 1 * TicksPerSecond

Min(a, b) == IF a < b THEN a ELSE b

----------------------------------------------------------------------------
\* The dict PluginManager.plugins: CPython keeps the entries in insertion
\* order, a deleted entry leaves a hole until the table is resized.

Dummy == [name |-> 0, gen |-> 0, ver |-> 0, enabled |-> FALSE]

IsLive(e) == e.name # 0

\* the identity of a plugin object: its name and the load that built it
Id(e) == <<e.name, e.gen>>

Ids(es) == [i \in 1..Len(es) |-> Id(es[i])]

Live(es) == SelectSeq(es, IsLive)

Used(es) == Len(Live(es))

Has(es, k) == \E i \in 1..Len(es) : es[i].name = k

Get(es, k) == IF Has(es, k) THEN es[CHOOSE i \in 1..Len(es) : es[i].name = k] ELSE Dummy

KeyList(es) == [i \in 1..Used(es) |-> Live(es)[i].name]

USABLE_FRACTION(n) == (2 * n) \div 3

PyDict_MINSIZE == 8

RECURSIVE KeysSize(_, _)
KeysSize(minsize, n) == IF n >= minsize THEN n ELSE KeysSize(minsize, 2 * n)

\* a faulty DictSet: a new key is put in front of the others
DictSetInFront(d, k, v) ==
    IF Has(d.es, k)
    THEN [d EXCEPT !.es = [i \in 1..Len(d.es) |-> IF d.es[i].name = k THEN v ELSE d.es[i]]]
    ELSE [d EXCEPT !.es = <<v>> \o d.es]

\* d[k] = v : an existing key keeps its position, a new key is appended,
\* after a resize (which drops the holes) when no entry slot is left.
DictSet(d, k, v) ==
    IF Has(d.es, k)
    THEN [d EXCEPT !.es = [i \in 1..Len(d.es) |-> IF d.es[i].name = k THEN v ELSE d.es[i]]]
    ELSE IF Len(d.es) >= USABLE_FRACTION(d.size)
         THEN [es |-> Append(Live(d.es), v),
               size |-> KeysSize(3 * Used(d.es), PyDict_MINSIZE)]
         ELSE [d EXCEPT !.es = Append(d.es, v)]

\* del d[k]
DictDel(d, k) ==
    [d EXCEPT !.es = [i \in 1..Len(d.es) |-> IF d.es[i].name = k THEN Dummy ELSE d.es[i]]]

\* iter(d.values())
NewIter(es) == [pos |-> 1, len |-> Used(es), used |-> Used(es)]

RECURSIVE SkipHoles(_, _)
SkipHoles(es, i) == IF i <= Len(es) /\ ~IsLive(es[i]) THEN SkipHoles(es, i + 1) ELSE i

\* next(it) : "error" is RuntimeError (dictionary changed size / keys changed
\* during iteration), "stop" is StopIteration.
IterNext(es, it) ==
    LET i == SkipHoles(es, it.pos) IN
    IF it.used # Used(es) THEN [kind |-> "error", it |-> [it EXCEPT !.used = -1], value |-> Dummy]
    ELSE IF i > Len(es) THEN [kind |-> "stop", it |-> it, value |-> Dummy]
    ELSE IF it.len = 0 THEN [kind |-> "error", it |-> it, value |-> Dummy]
    ELSE [kind |-> "value", it |-> [it EXCEPT !.pos = i + 1, !.len = it.len - 1],
          value |-> es[i]]

----------------------------------------------------------------------------
\* Plugin sources and plugin objects

\* BotPlugin.get_commands of the plugin in directory n
get_commands(n) == IF n = Core THEN {Ping, ReloadCmd} ELSE {Ping}

\* BotPlugin.can_handle
can_handle(p, command) == command \in get_commands(p.name)

\* plugin_class() : BotPlugin.__init__ sets name and enabled = True
NewPlugin(n, g, f) == [name |-> n, gen |-> g, ver |-> f.ver, enabled |-> TRUE]

\* what loading the source raises before a plugin object exists
ImportFails(f) == ~f.exists \/ f.q \in {"import_error", "no_class"}

ImportError(f) == IF ~f.exists \/ f.q = "import_error" THEN "import_error" ELSE "no_class"

----------------------------------------------------------------------------
\* Coroutines of the manager.  A task is the call stack of one coroutine:
\*   kind  "discover" | "change" | "delete" | "cmd"
\*   name  the plugin directory, pname the key failures are recorded under
\*   pc    the await it is suspended in, or "done" with its result in res
\*   inst  the plugin object being loaded, q the quality of its source
\*   old   the plugin object whose cleanup is awaited
\*   had   the object registered under name when a reload began
\*   rest  PluginManager.cleanup: the plugin objects still to clean up
\*   exc   an exception left the coroutine

Task(kind, name) ==
    [kind |-> kind, name |-> name, pname |-> name, pc |-> "start", inst |-> Dummy,
     q |-> "ok", old |-> Dummy, res |-> FALSE, had |-> Dummy, rest |-> <<>>,
     exc |-> FALSE]

\* The manager's own state, threaded through the steps of a coroutine
Mgr == [d |-> [es |-> plugins, size |-> dk_size], failed |-> failed_plugins, gen |-> gen]

Done(m, t, res) == [m |-> m, t |-> [t EXCEPT !.pc = "done", !.res = res], ok |-> TRUE]

\* a faulty LoadFailed: the failure is not recorded
LoadFailedUnrecorded(m, t, err) == Done(m, t, FALSE)

\* load_plugin_from_file, the except clause: record the error, return False
LoadFailed(m, t, err) == Done([m EXCEPT !.failed[t.pname] = err], t, FALSE)

\* load_plugin_from_file, up to `await plugin.initialize(bot_instance)`
LoadBegin(m, t, f) ==
    IF ImportFails(f) THEN LoadFailed(m, t, ImportError(f))
    ELSE [m |-> [m EXCEPT !.gen[t.name] = @ + 1],
          t |-> [t EXCEPT !.pc = "init", !.q = f.q,
                          !.inst = NewPlugin(t.name, m.gen[t.name] + 1, f)],
          ok |-> m.gen[t.name] < MaxGen]

\* a faulty Register: a reloaded plugin keeps the enabled flag of the plugin
\* object it replaces
RegisterAsBefore(m, t) ==
    Done([m EXCEPT !.d = DictSet(m.d, t.inst.name,
                                 [t.inst EXCEPT !.enabled = ~IsLive(t.had) \/ t.had.enabled]),
                   !.failed[t.pname] = NoError],
         t, TRUE)

\* load_plugin_from_file: self.plugins[plugin.name] = plugin;
\* self.failed_plugins.pop(plugin_name, None); return True
Register(m, t) ==
    Done([m EXCEPT !.d = DictSet(m.d, t.inst.name, t.inst), !.failed[t.pname] = NoError],
         t, TRUE)

\* load_plugin_from_file, from the result of initialize to the next await
LoadInitialized(m, t) ==
    IF t.q = "init_raise" THEN LoadFailed(m, t, "init_raise")
    ELSE IF t.q = "init_false" THEN LoadFailed(m, t, "init_false")
    ELSE IF Has(m.d.es, t.inst.name)
         THEN [m |-> m, ok |-> TRUE,
               t |-> [t EXCEPT !.pc = "old_cleanup", !.old = Get(m.d.es, t.inst.name)]]
         ELSE Register(m, t)

\* load_plugin_from_file, after `await old_plugin.cleanup()`
LoadCleaned(m, t, raised) ==
    IF raised THEN LoadFailed(m, t, "cleanup_error") ELSE Register(m, t)

\* unload_plugin, up to `await plugin.cleanup()`
UnloadBegin(m, t) ==
    [m |-> m, ok |-> TRUE,
     t |-> [t EXCEPT !.pc = "unl_cleanup", !.old = Get(m.d.es, t.name)]]

\* unload_plugin, after the await: del self.plugins[plugin_name] (a KeyError
\* is caught like an exception of cleanup), the value is unload's result
Unloaded(m, t, raised) ==
    IF raised \/ ~Has(m.d.es, t.name) THEN m ELSE [m EXCEPT !.d = DictDel(m.d, t.name)]

\* reload_plugin after unload_plugin returned: load_plugin_from_file is
\* called without plugin_name, so failures are recorded under plugin_file.stem
ReloadLoad(m, t, f) == LoadBegin(m, [t EXCEPT !.pname = Stem], f)

\* reload_plugin, up to its first await
ReloadBegin(m, t, f) ==
    LET t1 == [t EXCEPT !.had = Get(m.d.es, t.name)] IN
    IF ~f.exists THEN Done(m, t1, FALSE)
    ELSE IF Has(m.d.es, t.name) THEN UnloadBegin(m, t1)
    ELSE ReloadLoad(m, t1, f)

\* _handle_file_change
ChangeBegin(m, t, f) ==
    IF Has(m.d.es, t.name) THEN ReloadBegin(m, t, f) ELSE LoadBegin(m, t, f)

\* _handle_file_deletion
DeleteBegin(m, t) ==
    IF Has(m.d.es, t.name) THEN UnloadBegin(m, t) ELSE Done(m, t, FALSE)

\* a coroutine resumes after `await plugin.cleanup()` in unload_plugin
AfterUnload(m, t, raised, f) ==
    IF t.kind = "delete"
    THEN Done(Unloaded(m, t, raised), t, ~raised /\ Has(m.d.es, t.name))
    ELSE ReloadLoad(Unloaded(m, t, raised), t, f)

\* PluginManager.cleanup, the loop over list(self.plugins.values()): the
\* next `await plugin.cleanup()`, or self.plugins.clear() after the last one
CleanupLoop(m, t, todo) ==
    IF todo = <<>>
    THEN Done([m EXCEPT !.d = [es |-> <<>>, size |-> PyDict_MINSIZE]], t, TRUE)
    ELSE [m |-> m, ok |-> TRUE,
          t |-> [t EXCEPT !.pc = "all_cleanup", !.old = Head(todo), !.rest = Tail(todo)]]

\* PluginManager.cleanup, up to its first await on a plugin
CleanupBegin(m, t) == CleanupLoop(m, t, Live(m.d.es))

\* PluginManager.cleanup after `await plugin.cleanup()`: nothing catches
\* what the plugin raised
CleanupNext(m, t, raised) ==
    IF raised THEN [m |-> m, ok |-> TRUE, t |-> [t EXCEPT !.pc = "done", !.exc = TRUE]]
    ELSE CleanupLoop(m, t, t.rest)

----------------------------------------------------------------------------
\* The dispatcher: PluginManager.handle_command

Idle ==
    [pc |-> "idle", cmd |-> Ping, arg |-> 0, it |-> NewIter(<<>>), cur |-> Dummy,
     kind |-> "none", raised |-> FALSE]

\* the for loop, from one `await plugin.handle_command` to the next:
\* "invoke" a plugin, return "none", or the "error" of the dict iterator
RECURSIVE Scan(_, _, _)
Scan(es, it, command) ==
    LET r == IterNext(es, it) IN
    IF r.kind = "error" THEN [kind |-> "error", it |-> r.it, cur |-> Dummy]
    ELSE IF r.kind = "stop" THEN [kind |-> "none", it |-> r.it, cur |-> Dummy]
    ELSE IF r.value.enabled /\ can_handle(r.value, command)
         THEN [kind |-> "invoke", it |-> r.it, cur |-> r.value]
         ELSE Scan(es, r.it, command)

\* CorePlugin.handle_command: command == "reload" with a plugin name
IsReload(d) == d.cur.name = Core /\ d.cmd = ReloadCmd

\* the dispatcher after Scan: suspended in a plugin, or finished
Advance(d, es) ==
    LET s == Scan(es, d.it, d.cmd) IN
    IF s.kind = "invoke"
    THEN [d EXCEPT !.pc = "await", !.it = s.it, !.cur = s.cur]
    ELSE [d EXCEPT !.pc = "done", !.it = s.it, !.cur = Dummy, !.kind = s.kind]

\* sets the manager's variables from the state a coroutine step left
SetMgr(m) ==
    /\ plugins' = m.d.es
    /\ dk_size' = m.d.size
    /\ failed_plugins' = m.failed
    /\ gen' = m.gen

Remove(seq, i) == [j \in 1..(Len(seq) - 1) |-> IF j < i THEN seq[j] ELSE seq[j + 1]]

Busy == Len(queue) + Len(tasks)

\* Returning a result is no await: a finished coroutine hands its result to
\* its caller before any other coroutine of the loop runs.
Quiet == disp.pc # "done" /\ \A i \in 1..Len(tasks) : tasks[i].pc # "done"

\* the dispatcher moves on; a "reload" that reaches CorePlugin runs
\* reload_plugin to its first await inside the same step
Dispatch(d) ==
    LET d1 == Advance(d, plugins)
        r  == ReloadBegin(Mgr, Task("cmd", d.arg), file[d.arg])
    IN  IF d1.pc = "await" /\ IsReload(d1)
        THEN /\ r.ok
             /\ Busy < MaxTasks
             /\ disp' = d1
             /\ tasks' = Append(tasks, r.t)
             /\ SetMgr(r.m)
        ELSE /\ disp' = d1
             /\ UNCHANGED <<tasks, plugins, dk_size, failed_plugins, gen>>

\* a command arrives: handle_command(command, args, ...) is called
DispatchStart(command, arg) ==
    /\ Quiet
    /\ disc.pc = "done"
    /\ disp.pc = "idle"
    /\ Dispatch([Idle EXCEPT !.cmd = command, !.arg = arg, !.it = NewIter(plugins)])
    /\ UNCHANGED <<file, disc, queue, now, last_modified, events, burst, off>>

\* plugin.handle_command returns a reply, returns None or raises
PluginReturns(outcome) ==
    /\ Quiet
    /\ disp.pc = "await"
    /\ ~IsReload(disp)
    /\ IF outcome = "reply"
       THEN /\ disp' = [disp EXCEPT !.pc = "done", !.kind = "reply"]
            /\ UNCHANGED <<tasks, plugins, dk_size, failed_plugins, gen>>
       ELSE Dispatch([disp EXCEPT !.raised = @ \/ outcome = "raise"])
    /\ UNCHANGED <<file, disc, queue, now, last_modified, events, burst, off>>

\* the caller of handle_command takes the result
DispatchReturn ==
    /\ disp.pc = "done"
    /\ \A i \in 1..Len(tasks) : tasks[i].pc # "done"
    /\ disp' = Idle
    /\ UNCHANGED <<file, plugins, dk_size, failed_plugins, gen, disc, queue, tasks,
                   now, last_modified, events, burst, off>>

----------------------------------------------------------------------------
\* What a dispatch did, for the properties: the plugin objects registered
\* when it began and the objects whose handle_command it called.

NoTrace == [snap |-> <<>>, calls |-> <<>>]

Invokes == disp'.pc = "await" /\ (disp.pc # "await" \/ disp'.it # disp.it)

Track ==
    trace' = IF disp'.pc = "idle" THEN NoTrace
             ELSE LET tr == IF disp.pc = "idle"
                            THEN [snap |-> Ids(Live(plugins)), calls |-> <<>>]
                            ELSE trace
                  IN  IF Invokes THEN [tr EXCEPT !.calls = Append(@, Id(disp'.cur))]
                      ELSE tr

----------------------------------------------------------------------------
\* The steps of the manager's coroutines

\* a coroutine step left the manager in r.m and the coroutine in r.t
Step(i, r) ==
    /\ r.ok
    /\ tasks' = [tasks EXCEPT ![i] = r.t]
    /\ SetMgr(r.m)
    /\ UNCHANGED <<file, disc, queue, disp, now, last_modified, events, burst, off>>

\* the loop starts a coroutine the watcher thread scheduled
TaskStart ==
    /\ Quiet
    /\ queue # <<>>
    /\ LET t == Head(queue)
           r == IF t.kind = "change" THEN ChangeBegin(Mgr, t, file[t.name])
                ELSE DeleteBegin(Mgr, t)
       IN  /\ r.ok
           /\ tasks' = Append(tasks, r.t)
           /\ SetMgr(r.m)
    /\ queue' = Tail(queue)
    /\ UNCHANGED <<file, disc, disp, now, last_modified, events, burst, off>>

\* `await plugin.cleanup()` of unload_plugin returns or raises
CleanupReturns(i, raised) ==
    /\ Quiet
    /\ tasks[i].pc = "unl_cleanup"
    /\ Step(i, AfterUnload(Mgr, tasks[i], raised, file[tasks[i].name]))

\* `await plugin.initialize(bot_instance)` returns or raises
InitializeReturns(i) ==
    /\ Quiet
    /\ tasks[i].pc = "init"
    /\ Step(i, LoadInitialized(Mgr, tasks[i]))

\* `await old_plugin.cleanup()` of load_plugin_from_file returns or raises
OldCleanupReturns(i, raised) ==
    /\ Quiet
    /\ tasks[i].pc = "old_cleanup"
    /\ Step(i, LoadCleaned(Mgr, tasks[i], raised))

\* a finished coroutine returns to its caller: the discovery loop stores the
\* result, CorePlugin._handle_reload turns it into its reply
TaskReturn(i) ==
    /\ tasks[i].pc = "done"
    /\ tasks' = Remove(tasks, i)
    /\ disc' = IF tasks[i].kind = "discover"
               THEN [disc EXCEPT !.results[tasks[i].name] =
                                     IF tasks[i].res THEN "True" ELSE "False"]
               ELSE disc
    /\ disp' = IF tasks[i].kind = "cmd"
               THEN [disp EXCEPT !.pc = "done", !.kind = "reply"]
               ELSE disp
    /\ UNCHANGED <<file, plugins, dk_size, failed_plugins, gen, queue, now,
                   last_modified, events, burst, off>>

\* the host calls PluginManager.cleanup: stop_hot_reloading stops the
\* observer, then the plugins are cleaned up one after another
cleanup ==
    /\ Quiet
    /\ disc.pc = "done"
    /\ Busy < MaxTasks
    /\ disc' = [disc EXCEPT !.pc = "stopped"]
    /\ LET r == CleanupBegin(Mgr, Task("cleanup", 0)) IN
        /\ tasks' = Append(tasks, r.t)
        /\ SetMgr(r.m)
    /\ UNCHANGED <<file, queue, disp, now, last_modified, events, burst, off>>

\* `await plugin.cleanup()` of PluginManager.cleanup returns or raises
AllCleanupReturns(i, raised) ==
    /\ Quiet
    /\ tasks[i].pc = "all_cleanup"
    /\ Step(i, CleanupNext(Mgr, tasks[i], raised))

\* the coroutines suspended in the cleanup of the plugin object id
Cleaning(ts, id) ==
    {i \in 1..Len(ts) : /\ ts[i].pc \in {"unl_cleanup", "old_cleanup", "all_cleanup"}
                        /\ Id(ts[i].old) = id}

\* a step in which one more coroutine is suspended in the cleanup of a
\* plugin object has called that cleanup
Count ==
    cleaned' = [id \in DOMAIN cleaned |->
                   IF Cardinality(Cleaning(tasks', id)) > Cardinality(Cleaning(tasks, id))
                   THEN cleaned[id] + 1 ELSE cleaned[id]]

\* self.plugins[plugin.name] = plugin : the key a step has inserted
Registered == {n \in Names : Has(plugins', n) /\ ~Has(plugins, n)}

Log ==
    added' = IF plugins' = plugins \/ Registered = {} THEN added
             ELSE Append(added, CHOOSE n \in Registered : TRUE)

\* the history of cleanup calls is not kept
Unclean == UNCHANGED cleaned

\* the histories of cleanup calls and of registrations are not kept
Uncounted == UNCHANGED <<cleaned, added>>

----------------------------------------------------------------------------
\* discover_and_load_plugins

\* one round of the loop over plugins_dir.iterdir(), whose order is arbitrary
DiscoverNext(n) ==
    /\ disc.pc = "loop"
    /\ tasks = <<>>
    /\ n \in disc.todo
    /\ disc' = [disc EXCEPT !.todo = @ \ {n}, !.order = Append(@, n)]
    /\ IF file[n].exists
       THEN LET r == LoadBegin(Mgr, Task("discover", n), file[n]) IN
            /\ r.ok
            /\ tasks' = <<r.t>>
            /\ SetMgr(r.m)
       ELSE UNCHANGED <<tasks, plugins, dk_size, failed_plugins, gen>>
    /\ UNCHANGED <<file, queue, disp, now, last_modified, events, burst, off>>

\* the loop is over: start_hot_reloading, return results
DiscoverEnd ==
    /\ disc.pc = "loop"
    /\ tasks = <<>>
    /\ disc.todo = {}
    /\ disc' = [disc EXCEPT !.pc = "done"]
    /\ UNCHANGED <<file, plugins, dk_size, failed_plugins, gen, queue, tasks, disp,
                   now, last_modified, events, burst, off>>

----------------------------------------------------------------------------
\* The watcher thread: PluginFileHandler

\* a faulty Debounced: every event is let through
NeverDebounced(last, t) == FALSE

\* on_modified: the event falls inside the debounce interval of the last
\* event that was let through
Debounced(last, t) == last # None /\ t - last < debounce_time

NoBurst == [start |-> None, last |-> None, n |-> 0, reloads |-> 0]

\* A burst starts with the first event after a pause of debounce_time; the
\* events of the burst less than debounce_time after its first one are
\* counted in n, the reloads they schedule in reloads.
NextBurst(b, t, scheduled) ==
    LET k == IF scheduled THEN 1 ELSE 0 IN
    IF b.last = None \/ t - b.last >= debounce_time
    THEN [start |-> t, last |-> t, n |-> 1, reloads |-> k]
    ELSE IF t - b.start < debounce_time
         THEN [b EXCEPT !.last = t, !.n = @ + 1, !.reloads = @ + k]
         ELSE [b EXCEPT !.last = t]

\* plugin.py of directory n is written (quality q) at time t; watchdog calls
\* on_modified, which schedules _handle_file_change unless debounced
FsModify(n, q, t) ==
    /\ Quiet
    /\ disc.pc = "done"
    /\ events' = events + 1
    /\ file' = [file EXCEPT ![n] = [exists |-> TRUE, q |-> q, ver |-> @.ver + 1]]
    /\ now' = t
    /\ IF Debounced(last_modified[n], t)
       THEN UNCHANGED <<last_modified, queue>>
       ELSE /\ Busy < MaxTasks
            /\ last_modified' = [last_modified EXCEPT ![n] = t]
            /\ queue' = Append(queue, Task("change", n))
    /\ UNCHANGED <<plugins, dk_size, failed_plugins, gen, disc, tasks, disp, off>>

\* plugin.py of directory n is removed; on_deleted schedules
\* _handle_file_deletion
FsDelete(n) ==
    /\ Quiet
    /\ disc.pc = "done"
    /\ file[n].exists
    /\ Busy < MaxTasks
    /\ events' = events + 1
    /\ file' = [file EXCEPT ![n].exists = FALSE]
    /\ queue' = Append(queue, Task("delete", n))
    /\ UNCHANGED <<plugins, dk_size, failed_plugins, gen, disc, tasks, disp, now,
                   last_modified, burst, off>>

\* the burst of events the written file belongs to
Observe(n) == burst' = [burst EXCEPT ![n] = NextBurst(@, now', Len(queue') > Len(queue))]

----------------------------------------------------------------------------
\* enable_plugin, disable_plugin

\* a faulty SetEnabled: the flag is left as it was
SetEnabledSkipped(es, n, b) == es

SetEnabled(es, n, b) ==
    [i \in 1..Len(es) |-> IF es[i].name = n THEN [es[i] EXCEPT !.enabled = b] ELSE es[i]]

\* a faulty CommandOwner: the first plugin that claims the command keeps it
FirstOwner(es, c) ==
    IF \E i \in 1..Len(es) : IsLive(es[i]) /\ es[i].enabled /\ c \in get_commands(es[i].name)
    THEN es[CHOOSE i \in 1..Len(es) :
                /\ IsLive(es[i]) /\ es[i].enabled /\ c \in get_commands(es[i].name)
                /\ \A j \in 1..(i - 1) :
                       ~(IsLive(es[j]) /\ es[j].enabled /\ c \in get_commands(es[j].name))].name
    ELSE 0

\* get_all_commands: later plugins overwrite earlier ones; 0 for no plugin
RECURSIVE CommandOwner(_, _)
CommandOwner(es, c) ==
    IF es = <<>> THEN 0
    ELSE LET e == es[Len(es)] IN
         IF IsLive(e) /\ e.enabled /\ c \in get_commands(e.name) THEN e.name
         ELSE CommandOwner(SubSeq(es, 1, Len(es) - 1), c)

get_all_commands == [c \in Commands |-> CommandOwner(plugins, c)]

enable_plugin(n) ==
    /\ Quiet
    /\ disc.pc = "done"
    /\ plugins' = SetEnabled(plugins, n, TRUE)
    /\ off' = {id \in off : id[1] # n}
    /\ UNCHANGED <<file, dk_size, failed_plugins, gen, disc, queue, tasks, disp, now,
                   last_modified, events, burst>>

disable_plugin(n) ==
    /\ Quiet
    /\ disc.pc = "done"
    /\ plugins' = SetEnabled(plugins, n, FALSE)
    /\ off' = IF Has(plugins, n) THEN off \cup {Id(Get(plugins, n))} ELSE off
    /\ UNCHANGED <<file, dk_size, failed_plugins, gen, disc, queue, tasks, disp, now,
                   last_modified, events, burst>>

----------------------------------------------------------------------------
\* The host bot (boo_bot.py, DebugMatrixBot).  A Python str is the sequence
\* of its characters.

MaxTexts == 2         \* text events received by the host

Blank == " "

UpperCase == <<"A", "B", "C", "D", "E", "F", "G", "H", "I", "J", "K", "L", "M", "N", "O", "P", "Q", "R", "S", "T", "U", "V", "W", "X", "Y", "Z">>

LowerCase == <<"a", "b", "c", "d", "e", "f", "g", "h", "i", "j", "k", "l", "m", "n", "o", "p", "q", "r", "s", "t", "u", "v", "w", "x", "y", "z">>

\* str.lower, one character
LowerChar(c) ==
    IF \E i \in 1..Len(UpperCase) : UpperCase[i] = c
    THEN LowerCase[CHOOSE i \in 1..Len(UpperCase) : UpperCase[i] = c]
    ELSE c

\* str.lower
lower(s) == IF s = <<>> THEN <<>> ELSE [i \in 1..Len(s) |-> LowerChar(s[i])]

RECURSIVE lstrip(_)
lstrip(s) == IF s # <<>> /\ Head(s) = Blank THEN lstrip(Tail(s)) ELSE s

RECURSIVE rstrip(_)
rstrip(s) == IF s # <<>> /\ s[Len(s)] = Blank THEN rstrip(SubSeq(s, 1, Len(s) - 1)) ELSE s

\* str.strip
strip(s) == rstrip(lstrip(s))

\* str.startswith
startswith(s, p) == Len(s) >= Len(p) /\ SubSeq(s, 1, Len(p)) = p

\* s[n:]
From(s, n) == SubSeq(s, n + 1, Len(s))

\* current_display_name is None (the code never stores the empty string)
NoName == <<>>

Boo == <<"B", "o", "o">>
Boot == <<"B", "o", "o", "t">>

EditMark == <<"*", Blank>>

\* a faulty Falsy: no name passes for a name
NeverFalsy(x) == FALSE

\* `not x` of a str or None
Falsy(x) == x = NoName


\* handle_bot_command, the chain of matches_exact / matches_command tests in
\* the order of the code: the pattern, whether it must match exactly, and
\* the branch taken
Branches == <<
    [pattern |-> <<"d", "e", "b", "u", "g">>, exact |-> TRUE, handler |-> "debug"],
    [pattern |-> <<"t", "a", "l", "k">>, exact |-> TRUE, handler |-> "talk"],
    [pattern |-> <<"h", "e", "l", "p">>, exact |-> TRUE, handler |-> "help"],
    [pattern |-> <<"p", "i", "n", "g">>, exact |-> TRUE, handler |-> "ping"],
    [pattern |-> <<"r", "o", "o", "m">>, exact |-> TRUE, handler |-> "room"],
    [pattern |-> <<"d", "b", " ", "h", "e", "a", "l", "t", "h">>, exact |-> TRUE, handler |-> "db health"],
    [pattern |-> <<"d", "b", " ", "s", "t", "a", "t", "s">>, exact |-> TRUE, handler |-> "db stats"],
    [pattern |-> <<"8">>, exact |-> FALSE, handler |-> "8"],
    [pattern |-> <<"b", "i", "b", "l", "e">>, exact |-> TRUE, handler |-> "bible"],
    [pattern |-> <<"b", "i", "b", "l", "e", " ", "s", "o", "n", "g">>, exact |-> TRUE, handler |-> "bible song"],
    [pattern |-> <<"a", "d", "v", "i", "s", "e">>, exact |-> FALSE, handler |-> "advise"],
    [pattern |-> <<"a", "d", "v", "i", "c", "e">>, exact |-> FALSE, handler |-> "advice"],
    [pattern |-> <<"s", "u", "m", "m", "a", "r", "y">>, exact |-> FALSE, handler |-> "summary"],
    [pattern |-> <<"s", "u", "b", "s">>, exact |-> FALSE, handler |-> "subs"],
    [pattern |-> <<"a", "s", "k">>, exact |-> FALSE, handler |-> "ask"],
    [pattern |-> <<"v", "i", "d", "e", "o", "s">>, exact |-> TRUE, handler |-> "videos"],
    [pattern |-> <<"r", "e", "f", "r", "e", "s", "h", " ", "n", "a", "m", "e">>, exact |-> TRUE, handler |-> "refresh"],
    [pattern |-> <<"u", "p", "d", "a", "t", "e", " ", "n", "a", "m", "e">>, exact |-> TRUE, handler |-> "refresh"]>>

\* handle_bot_command: prefix = f"{self.current_display_name.lower()}:"
CommandPrefix(name) == lower(name) \o <<":">>

\* matches_exact, matches_command: expected = f"{prefix} {pattern}".strip()
Expected(name, pattern) == strip(CommandPrefix(name) \o <<Blank>> \o pattern)

matches_exact(name, command, pattern) == lower(command) = Expected(name, pattern)

matches_command(name, command, pattern) ==
    \/ lower(command) = Expected(name, pattern)
    \/ startswith(lower(command), Expected(name, pattern) \o <<Blank>>)

Matches(name, command, b) ==
    IF b.exact THEN matches_exact(name, command, b.pattern)
    ELSE matches_command(name, command, b.pattern)

\* a faulty Branch: the first test always succeeds
FirstBranch(name, command) == 1

\* the first test of the chain that succeeds, 0 when the final else is taken
Branch(name, command) ==
    IF \E i \in 1..Len(Branches) : Matches(name, command, Branches[i])
    THEN CHOOSE i \in 1..Len(Branches) :
             /\ Matches(name, command, Branches[i])
             /\ \A j \in 1..(i - 1) : ~Matches(name, command, Branches[j])
    ELSE 0

\* command[len(command_start):].strip() with command_start = f"{prefix} {pattern}",
\* empty when the command is no longer than command_start
Argument(name, command, pattern) ==
    LET command_start == CommandPrefix(name) \o <<Blank>> \o pattern IN
    IF Len(command) > Len(command_start)
    THEN strip(From(command, Len(command_start))) ELSE <<>>

\* the branches that answer with one message of their own
Answering == {"debug", "talk", "help", "ping", "room"}

\* the branches that ask for an argument and answer with a usage message
\* when it is empty
Asking == {"advise", "advice", "summary", "subs"}

\* send_message(room.room_id, f"{edit_prefix}..."): one call of client.room_send
Msg(ev, kind) == [room |-> ev.room, kind |-> kind, edit |-> ev.relates_to]

\* text_message_callback, lines 584-613: the text handed to handle_bot_command
Recognise(name, body) ==
    LET cleaned_message == IF startswith(body, EditMark) THEN strip(From(body, 2)) ELSE body
        expected_prefix == CommandPrefix(name)
        cleaned_lower == strip(lower(cleaned_message))
        original_lower == strip(lower(body))
    IN  IF startswith(cleaned_lower, expected_prefix)
        THEN [found |-> TRUE, command |-> cleaned_message]
        ELSE IF startswith(original_lower, expected_prefix)
        THEN [found |-> TRUE, command |-> body]
        ELSE [found |-> FALSE, command |-> <<>>]

\* what a text event from another user comes to under a display name:
\* whether a command was found, the branch of handle_bot_command taken
\* and the argument it extracts
Parsed(name, body) ==
    LET r == Recognise(name, body)
        i == Branch(name, r.command)
    IN  IF ~r.found THEN [found |-> FALSE, handler |-> "", arg |-> <<>>]
        ELSE IF i = 0 THEN [found |-> TRUE, handler |-> "unknown", arg |-> <<>>]
        ELSE [found |-> TRUE, handler |-> Branches[i].handler,
              arg |-> IF Branches[i].exact THEN <<>>
                      ELSE Argument(name, r.command, Branches[i].pattern)]

\* what client.get_displayname gives: it raises, it returns an error
\* response without displayname, or a response whose displayname is None
\* or a string
Fetched == {<<>>, <<Blank>>, Boo, <<Blank>> \o Boo \o <<Blank>>, Boot}

Responses ==
    {[kind |-> k, displayname |-> <<>>] : k \in {"raise", "error"}}
        \cup {[kind |-> "ok", displayname |-> s] : s \in Fetched}

\* get_bot_display_name
get_bot_display_name(r) ==
    IF r.kind = "ok" /\ ~Falsy(r.displayname) THEN strip(r.displayname) ELSE NoName

\* the bot after update_command_prefix, with its return value in ret
Updated(b, r, name, ret) ==
    [b EXCEPT !.before = b.current_display_name, !.current_display_name = name,
              !.ret = ret, !.resp = r]

\* a faulty update_command_prefix: a failed fetch keeps the name known before
update_keeping_name(b, r) ==
    LET display_name == get_bot_display_name(r) IN
    IF ~Falsy(display_name) THEN Updated(b, r, display_name, "True")
    ELSE Updated(b, r, b.current_display_name, "False")

\* update_command_prefix
update_command_prefix(b, r) ==
    LET display_name == get_bot_display_name(r) IN
    IF ~Falsy(display_name) THEN Updated(b, r, display_name, "True")
    ELSE Updated(b, r, NoName, "False")

\* handle_bot_command, up to its first await of the transport
handle_bot_command(b, command) ==
    LET name == b.current_display_name
        i == Branch(name, command)
        h == IF i = 0 THEN "unknown" ELSE Branches[i].handler
        a == IF i = 0 \/ Branches[i].exact THEN <<>>
             ELSE Argument(name, command, Branches[i].pattern)
        c == [b EXCEPT !.found = TRUE, !.answered = @ \cup {b.text_messages}]
    IN  IF Falsy(name)
        THEN [c EXCEPT !.pc = "done", !.handler = "unconfigured",
                       !.out = <<Msg(b.ev, "unconfigured")>>]
        ELSE IF h = "refresh" THEN [c EXCEPT !.pc = "cmd_refresh", !.handler = h]
        ELSE [c EXCEPT !.pc = "done", !.handler = h, !.arg = a,
                       !.out = IF h \in Answering \cup {"unknown"} THEN <<Msg(b.ev, h)>>
                               ELSE IF h \in Asking /\ a = <<>> THEN <<Msg(b.ev, "usage")>>
                               ELSE IF h = "ask" /\ Len(command) <= Len(CommandPrefix(name)) + 4
                                    THEN <<Msg(b.ev, "usage")>>
                               ELSE <<>>]

\* text_message_callback from the test of current_display_name on
Answer(b) ==
    LET r == Recognise(b.current_display_name, b.ev.body)
        u == [b EXCEPT !.under = b.current_display_name] IN
    IF Falsy(b.current_display_name)
    THEN [u EXCEPT !.pc = "done", !.dropped = @ \cup {b.text_messages}]
    ELSE IF r.found THEN handle_bot_command(u, r.command)
    ELSE [u EXCEPT !.pc = "done"]

Rooms == {"!a", "!b"}

HelpSpaced == <<"b", "o", "o", ":", " ", "h", "e", "l", "p">>
HelpUpper == <<"B", "O", "O", ":", " ", "h", "e", "l", "p">>
HelpTight == <<"b", "o", "o", ":", "h", "e", "l", "p">>
BootHelp == <<"b", "o", "o", "t", ":", " ", "h", "e", "l", "p">>
NoColon == <<"b", "o", "o", " ", "h", "e", "l", "p">>
PingTrailing == <<"b", "o", "o", ":", " ", "p", "i", "n", "g", " ">>
Foo == <<"b", "o", "o", ":", " ", "f", "o", "o">>
ColonHelp == <<":", " ", "h", "e", "l", "p">>
EightWhy == <<"b", "o", "o", ":", " ", "8", " ", "w", "h", "y">>
RefreshName == <<"b", "o", "o", ":", " ", "r", "e", "f", "r", "e", "s", "h", " ", "n", "a", "m", "e">>

Fresh == {HelpSpaced, HelpUpper, HelpTight, BootHelp, NoColon, PingTrailing, Foo,
          ColonHelp, EightWhy, RefreshName}

\* every body, fresh and as the body of an edit
Bodies == Fresh \cup {EditMark \o b : b \in Fresh}

Texts == [body : Bodies, own : BOOLEAN, relates_to : BOOLEAN, room : Rooms]

NoEvent == [body |-> <<>>, own |-> TRUE, relates_to |-> FALSE, room |-> "!a"]

NoResponse == [kind |-> "error", displayname |-> <<>>]

\* DebugMatrixBot.__init__.  Besides the fields of the object:
\*   pc       the await the bot is suspended in, "done" when login or the
\*            callback has finished, "idle" between events
\*   checked  last_name_check is not None
\*   ev       the text event in hand; found, handler, arg, out: what became of it
\*   under    the display name the event was tested under
\*   ret, resp, before   the last call of update_command_prefix: its result,
\*            the response it got and the name known before it
\*   dropped, answered   the numbers of the events ignored for want of a
\*            display name, and of those handed to handle_bot_command
\*   db       the numbers of the events whose message the database client
\*            has stored
BotInit ==
    [pc |-> "start", current_display_name |-> NoName, checked |-> FALSE,
     text_messages |-> 0, ev |-> NoEvent, found |-> FALSE, handler |-> "",
     arg |-> <<>>, out |-> <<>>, under |-> NoName, ret |-> "unset",
     resp |-> NoResponse, before |-> NoName, dropped |-> {}, answered |-> {},
     db |-> {}]

\* login: update_command_prefix after a successful login
login(r) ==
    /\ bot.pc = "start"
    /\ bot' = [update_command_prefix(bot, r) EXCEPT !.pc = "done"]
    /\ UNCHANGED <<mvars, yt, cfg>>

\* text_message_callback, up to `await self.store_message_in_db(...)`
text_message_callback(ev) ==
    /\ bot.pc = "idle"
    /\ bot.text_messages < MaxTexts
    /\ bot' = [bot EXCEPT !.pc = "store", !.text_messages = @ + 1, !.ev = ev]
    /\ UNCHANGED <<mvars, yt, cfg>>

\* store_message_in_db: the message is stored when the database is enabled
\* and the client returns a result; result is false when the database is
\* not enabled, when the client returns nothing and when it raises
store_message_in_db(b, result) ==
    IF result THEN [b EXCEPT !.db = @ \cup {b.text_messages}] ELSE b

\* text_message_callback, from the return of store_message_in_db: own
\* messages are ignored; the name is fetched first when it was never
\* checked or the last check is more than 15 seconds old
MessageStored(elapsed, result) ==
    /\ bot.pc = "store"
    /\ LET b == store_message_in_db(bot, result) IN
       bot' = IF b.ev.own THEN [b EXCEPT !.pc = "done"]
              ELSE IF ~b.checked \/ elapsed THEN [b EXCEPT !.pc = "name_check"]
              ELSE Answer(b)
    /\ UNCHANGED <<mvars, yt, cfg>>

\* text_message_callback, from the return of update_command_prefix
NameChecked(r) ==
    /\ bot.pc = "name_check"
    /\ bot' = Answer([update_command_prefix(bot, r) EXCEPT !.checked = TRUE])
    /\ UNCHANGED <<mvars, yt, cfg>>

\* handle_bot_command, "refresh name": from the return of
\* update_command_prefix, one message with the outcome
NameRefreshed(r) ==
    /\ bot.pc = "cmd_refresh"
    /\ bot' = [update_command_prefix(bot, r) EXCEPT
                   !.pc = "done", !.out = <<Msg(bot.ev, "refreshed")>>]
    /\ UNCHANGED <<mvars, yt, cfg>>

\* login or text_message_callback returns to the sync loop
Returned ==
    /\ bot.pc = "done"
    /\ bot' = [BotInit EXCEPT !.pc = "idle",
                              !.current_display_name = bot.current_display_name,
                              !.checked = bot.checked,
                              !.text_messages = bot.text_messages,
                              !.dropped = bot.dropped, !.answered = bot.answered,
                              !.db = bot.db]
    /\ UNCHANGED <<mvars, yt, cfg>>

----------------------------------------------------------------------------
\* The transcript caches.  DebugMatrixBot (boo_bot.py) and YouTubeProcessor
\* (youtube_handler.py) share one cache_transcript, YouTubePlugin
\* (plugins/youtube/plugin.py) has its own.  Each keeps per room an
\* OrderedDict url -> (title, transcript, timestamp), here the sequence of
\* its items in key order, and the url processed last.

MaxUrls == 3                          \* video URLs 1..MaxUrls
max_cached_transcripts_per_room == 2  \* the constructor's parameter

Urls == 1..MaxUrls

\* what the extraction yields for a video: its title and transcript
Video(url) == [url |-> url, title |-> <<"title", url>>, transcript |-> <<"transcript", url>>]

Caches == {"bot", "handler", "plugin"}

\* OrderedDict.__setitem__: the value of a key already present is replaced
\* where it stands, a new key goes to the end
OdSet(od, item) ==
    IF \E i \in 1..Len(od) : od[i].url = item.url
    THEN [i \in 1..Len(od) |-> IF od[i].url = item.url THEN item ELSE od[i]]
    ELSE Append(od, item)

\* del room_cache[next(iter(room_cache))], room_cache.popitem(last=False)
RemoveOldest(od) == Tail(od)

\* while len(room_cache) >= self.max_cached_transcripts_per_room: remove
\* the oldest entry
RECURSIVE MakeRoom(_)
MakeRoom(od) ==
    IF Len(od) >= max_cached_transcripts_per_room
    THEN MakeRoom(RemoveOldest(od)) ELSE od

\* while len(room_cache) > self.max_cached_transcripts_per_room: remove the
\* oldest entry
RECURSIVE Shrink(_)
Shrink(od) ==
    IF Len(od) > max_cached_transcripts_per_room
    THEN Shrink(RemoveOldest(od)) ELSE od

\* a faulty Cached: nothing is removed
CachedUnbounded(kind, od, item) == OdSet(od, item)

\* the room's cache after cache_transcript: the host bot and
\* YouTubeProcessor make room first and then store the item, YouTubePlugin
\* stores it and then shrinks the cache
Cached(kind, od, item) ==
    IF kind = "plugin" THEN Shrink(OdSet(od, item)) ELSE OdSet(MakeRoom(od), item)

\* __init__ of the object that owns the cache; room is the room of the
\* last cache_transcript call and removed the number of entries it removed
YouTube(kind) ==
    [kind |-> kind,
     transcript_cache |-> [r \in Rooms |-> <<>>],
     last_processed_video |-> [r \in Rooms |-> None],
     room |-> "", removed |-> 0]

\* cache_transcript(url, title, transcript, room_id)
cache_transcript(url, room_id) ==
    /\ LET od == yt.transcript_cache[room_id]
           new == Cached(yt.kind, od, Video(url))
       IN  yt' = [yt EXCEPT !.transcript_cache[room_id] = new,
                            !.last_processed_video[room_id] = url,
                            !.room = room_id,
                            !.removed = Len(OdSet(od, Video(url))) - Len(new)]
    /\ UNCHANGED <<mvars, bot, cfg>>

\* handle_youtube_question: list(room_cache.keys())[-1], the url whose
\* transcript answers a question without a URL (None when it replies that
\* no video has been processed in the room)
latest_url(room_id) ==
    LET od == yt.transcript_cache[room_id] IN
    IF od = <<>> THEN None ELSE od[Len(od)].url

----------------------------------------------------------------------------
\* ConfigManager (config_manager.py) and the file config/plugins.yaml.  The
\* content of a file is a text that decodes or not and parses as YAML or
\* not; a text that parses is a mapping from plugin names to entries, and
\* may carry comments.  An entry is absent, null (`ai:` with nothing under
\* it), a mapping without a "config" key, or a mapping with one; a config
\* holds the setting "temperature" and the setting "limits", which is a
\* value or a mapping with the setting "max".  The value 0 stands for a
\* setting that is not there.

MaxValue == 2                         \* setting values 1..MaxValue

Values == 1..MaxValue

ConfiguredPlugins == {"ai", "newplugin"}

Settings == {<<"temperature">>, <<"limits">>, <<"limits", "max">>}

NoLimits == [kind |-> "unset", v |-> 0]

Absent == [state |-> "absent", enabled |-> FALSE, temperature |-> 0, limits |-> NoLimits]

Null == [Absent EXCEPT !.state = "null"]

\* {"enabled": True, "config": {}}
NewEntry == [state |-> "map", enabled |-> TRUE, temperature |-> 0, limits |-> NoLimits]

NoData == [p \in ConfiguredPlugins |-> Absent]

NoFile == [kind |-> "none", comments |-> FALSE, data |-> NoData]

\* a text that parses as the mapping data
Yaml(data, comments) == [kind |-> "yaml", comments |-> comments, data |-> data]

\* a text that is not YAML, and bytes that do not decode
Invalid == [kind |-> "invalid", comments |-> FALSE, data |-> NoData]
Undecodable == [kind |-> "undecodable", comments |-> FALSE, data |-> NoData]

\* yaml.dump(data, f, default_flow_style=False, sort_keys=False)
Dump(data) == Yaml(data, FALSE)

\* setting.split('.') applied to data[plugin_name]["config"]: the entry
\* with the value set, ok false where Python raises TypeError
SetIn(e, setting, value) ==
    IF setting = <<"temperature">> THEN [ok |-> TRUE, e |-> [e EXCEPT !.temperature = value]]
    ELSE IF setting = <<"limits">>
         THEN [ok |-> TRUE, e |-> [e EXCEPT !.limits = [kind |-> "value", v |-> value]]]
    ELSE IF e.limits.kind = "value" THEN [ok |-> FALSE, e |-> e]
    ELSE [ok |-> TRUE, e |-> [e EXCEPT !.limits = [kind |-> "dict", v |-> value]]]

\* set_plugin_setting, lines 143-161: the parsed data with the setting set
Modified(data, plugin_name, setting, value) ==
    LET e0 == data[plugin_name]
        e1 == IF e0.state = "absent" THEN NewEntry ELSE e0
        e2 == IF e1.state = "noconfig" THEN [e1 EXCEPT !.state = "map"] ELSE e1
        r  == SetIn(e2, setting, value)
    IN  IF e1.state = "null" THEN [ok |-> FALSE, data |-> data]
        ELSE [ok |-> r.ok, data |-> [data EXCEPT ![plugin_name] = r.e]]

\* set_plugin_setting, the except clause: the backup, when there is one, is
\* written over the configuration file
Restored(config_file, backup_file) ==
    IF backup_file.kind # "none" THEN backup_file ELSE config_file

\* ConfigManager.__init__ with plugins.yaml as found; before is the content
\* of the file when the last call of set_plugin_setting began, ret and
\* plugin_name, setting, value are the result and the arguments of that call
ConfigManager(content, backup) ==
    [config_file |-> content, backup_file |-> backup, before |-> content,
     ret |-> "none", plugin_name |-> "", setting |-> <<>>, value |-> 0]

\* set_plugin_setting(plugin_name, setting, value)
set_plugin_setting(plugin_name, setting, value) ==
    /\ LET content == cfg.config_file
           called == [cfg EXCEPT !.before = content, !.plugin_name = plugin_name,
                                 !.setting = setting, !.value = value]
           m == Modified(content.data, plugin_name, setting, value)
       IN  cfg' =
             IF content.kind = "none" THEN [called EXCEPT !.ret = "False"]
             ELSE IF content.kind = "undecodable"
                  THEN [called EXCEPT !.ret = "False",
                                      !.config_file = Restored(content, cfg.backup_file)]
             ELSE IF content.kind = "invalid" \/ ~m.ok
                  THEN [called EXCEPT !.ret = "False", !.backup_file = content,
                                      !.config_file = Restored(content, content)]
             ELSE [called EXCEPT !.ret = "True", !.backup_file = content,
                                 !.config_file = Dump(m.data)]
    /\ UNCHANGED <<mvars, bot, yt>>

\* the operator edits config/plugins.yaml by hand, or removes it
EditFile(content) ==
    /\ content # cfg.config_file
    /\ cfg' = [ConfigManager(content, cfg.backup_file) EXCEPT !.before = cfg.before]
    /\ UNCHANGED <<mvars, bot, yt>>

\* plugins.yaml as the repository ships it, and with entries that are not
\* mappings with a config
Shipped ==
    Yaml([NoData EXCEPT !["ai"] = [NewEntry EXCEPT !.temperature = 1]], TRUE)

Sparse ==
    Yaml([NoData EXCEPT !["ai"] = [NewEntry EXCEPT !.state = "noconfig"],
                        !["newplugin"] = Null], TRUE)

Edits == {Shipped, Sparse, Invalid, Undecodable, NoFile}

----------------------------------------------------------------------------
\* The state after PluginManager.__init__ and DebugMatrixBot.__init__, with
\* discovery about to run over plugin directories of any quality

InitManager ==
    /\ file \in [Names -> [exists : {TRUE}, q : Quality, ver : {1}]]
    /\ plugins = <<>>
    /\ dk_size = PyDict_MINSIZE
    /\ failed_plugins = [k \in FailKeys |-> NoError]
    /\ gen = [n \in Names |-> 0]
    /\ disc = [pc |-> "loop", todo |-> Names, order |-> <<>>,
               results |-> [n \in Names |-> "absent"]]
    /\ queue = <<>>
    /\ tasks = <<>>
    /\ disp = Idle
    /\ now = 1
    /\ last_modified = [n \in Names |-> None]
    /\ events = 0
    /\ burst = [n \in Names |-> NoBurst]
    /\ off = {}
    /\ trace = NoTrace
    /\ cleaned = [id \in Names \X (1..MaxGen) |-> 0]
    /\ added = <<>>
    /\ bot = BotInit

\* the transcript cache is the host bot's
Init == InitManager /\ yt = YouTube("bot") /\ cfg = ConfigManager(Shipped, NoFile)

----------------------------------------------------------------------------
\* Specifications

Sources == {"ok", "import_error", "init_false"}

Outcomes == {"reply", "none", "raise"}

Later == Min(MaxTime, now + debounce_time)

\* The manager with its watcher and its dispatcher: events arrive at least
\* debounce_time apart
Next ==
    \/ \E n \in Names : DiscoverNext(n) /\ Track /\ Uncounted /\ UNCHANGED <<bot, yt, cfg>>
    \/ DiscoverEnd /\ Track /\ Uncounted /\ UNCHANGED <<bot, yt, cfg>>
    \/ \E n \in Names, q \in Sources :
           events < MaxEvents /\ FsModify(n, q, Later) /\ UNCHANGED burst /\ Track /\ Uncounted /\ UNCHANGED <<bot, yt, cfg>>
    \/ \E n \in Names : events < MaxEvents /\ FsDelete(n) /\ Track /\ Uncounted /\ UNCHANGED <<bot, yt, cfg>>
    \/ TaskStart /\ Track /\ Uncounted /\ UNCHANGED <<bot, yt, cfg>>
    \/ \E i \in 1..Len(tasks), raised \in BOOLEAN : CleanupReturns(i, raised) /\ Track /\ Uncounted /\ UNCHANGED <<bot, yt, cfg>>
    \/ \E i \in 1..Len(tasks) : InitializeReturns(i) /\ Track /\ Uncounted /\ UNCHANGED <<bot, yt, cfg>>
    \/ \E i \in 1..Len(tasks), raised \in BOOLEAN : OldCleanupReturns(i, raised) /\ Track /\ Uncounted /\ UNCHANGED <<bot, yt, cfg>>
    \/ \E i \in 1..Len(tasks) : TaskReturn(i) /\ Track /\ Uncounted /\ UNCHANGED <<bot, yt, cfg>>
    \/ \E c \in Commands, a \in Names :
           (c = ReloadCmd \/ a = Core) /\ DispatchStart(c, a) /\ Track /\ Uncounted /\ UNCHANGED <<bot, yt, cfg>>
    \/ \E o \in Outcomes : PluginReturns(o) /\ Track /\ Uncounted /\ UNCHANGED <<bot, yt, cfg>>
    \/ DispatchReturn /\ Track /\ Uncounted /\ UNCHANGED <<bot, yt, cfg>>
    \/ \E n \in Names : enable_plugin(n) /\ Track /\ Uncounted /\ UNCHANGED <<bot, yt, cfg>>
    \/ \E n \in Names : disable_plugin(n) /\ Track /\ Uncounted /\ UNCHANGED <<bot, yt, cfg>>

InitCore == Init /\ file[Core].q = "ok" /\ \A n \in Names : file[n].q \in Sources

Spec == InitCore /\ [][Next]_vars

\* Discovery alone, over sources of every quality
NextDiscover ==
    \/ \E n \in Names : DiscoverNext(n) /\ UNCHANGED trace /\ Uncounted /\ UNCHANGED <<bot, yt, cfg>>
    \/ DiscoverEnd /\ UNCHANGED trace /\ Uncounted /\ UNCHANGED <<bot, yt, cfg>>
    \/ \E i \in 1..Len(tasks) : InitializeReturns(i) /\ UNCHANGED trace /\ Uncounted /\ UNCHANGED <<bot, yt, cfg>>
    \/ \E i \in 1..Len(tasks) : TaskReturn(i) /\ UNCHANGED trace /\ Uncounted /\ UNCHANGED <<bot, yt, cfg>>

SpecDiscover == Init /\ [][NextDiscover]_vars

\* no file but n's has been modified
OneFile(n) == \A m \in Names \ {n} : last_modified[m] = None

\* The watcher alone: modification events on one plugin file, at any pace
NextWatch ==
    \/ \E n \in Names : DiscoverNext(n) /\ UNCHANGED trace /\ Uncounted /\ UNCHANGED <<bot, yt, cfg>>
    \/ DiscoverEnd /\ UNCHANGED trace /\ Uncounted /\ UNCHANGED <<bot, yt, cfg>>
    \/ \E n \in Names, q \in {"ok", "import_error"}, t \in now..Later :
           /\ events < MaxBurst
           /\ OneFile(n)
           /\ FsModify(n, q, t) /\ Observe(n) /\ UNCHANGED trace /\ Uncounted /\ UNCHANGED <<bot, yt, cfg>>
    \/ TaskStart /\ UNCHANGED trace /\ Uncounted /\ UNCHANGED <<bot, yt, cfg>>
    \/ \E i \in 1..Len(tasks) : CleanupReturns(i, FALSE) /\ UNCHANGED trace /\ Uncounted /\ UNCHANGED <<bot, yt, cfg>>
    \/ \E i \in 1..Len(tasks) : InitializeReturns(i) /\ UNCHANGED trace /\ Uncounted /\ UNCHANGED <<bot, yt, cfg>>
    \/ \E i \in 1..Len(tasks) : OldCleanupReturns(i, FALSE) /\ UNCHANGED trace /\ Uncounted /\ UNCHANGED <<bot, yt, cfg>>
    \/ \E i \in 1..Len(tasks) : TaskReturn(i) /\ UNCHANGED trace /\ Uncounted /\ UNCHANGED <<bot, yt, cfg>>

InitWatch == Init /\ \A n \in Names : file[n].q \in {"ok", "import_error"}

SpecWatch == InitWatch /\ [][NextWatch]_vars

\* the plugins a command, a file event or a coroutine is concerned with
Administered ==
    {m \in Names :
        \/ gen[m] > 1
        \/ ~file[m].exists
        \/ Has(plugins, m) /\ ~Get(plugins, m).enabled
        \/ \E id \in off : id[1] = m
        \/ \E i \in 1..Len(tasks) : tasks[i].name = m
        \/ \E i \in 1..Len(queue) : queue[i].name = m}

Only(n) == Administered \subseteq {n}

\* Enabling and disabling: one plugin at a time is disabled, enabled,
\* reloaded by command or deleted, while commands are dispatched
NextToggle ==
    \/ \E n \in Names : DiscoverNext(n) /\ Track /\ Unclean /\ Log /\ UNCHANGED <<bot, yt, cfg>>
    \/ DiscoverEnd /\ Track /\ Unclean /\ Log /\ UNCHANGED <<bot, yt, cfg>>
    \/ \E n \in Names : events < MaxEvents /\ Only(n) /\ FsDelete(n) /\ Track /\ Unclean /\ Log /\ UNCHANGED <<bot, yt, cfg>>
    \/ TaskStart /\ Track /\ Unclean /\ Log /\ UNCHANGED <<bot, yt, cfg>>
    \/ \E i \in 1..Len(tasks), raised \in BOOLEAN : CleanupReturns(i, raised) /\ Track /\ Unclean /\ Log /\ UNCHANGED <<bot, yt, cfg>>
    \/ \E i \in 1..Len(tasks) : InitializeReturns(i) /\ Track /\ Unclean /\ Log /\ UNCHANGED <<bot, yt, cfg>>
    \/ \E i \in 1..Len(tasks), raised \in BOOLEAN : OldCleanupReturns(i, raised) /\ Track /\ Unclean /\ Log /\ UNCHANGED <<bot, yt, cfg>>
    \/ \E i \in 1..Len(tasks) : TaskReturn(i) /\ Track /\ Unclean /\ Log /\ UNCHANGED <<bot, yt, cfg>>
    \/ \E c \in Commands, a \in Names :
           (IF c = ReloadCmd THEN Only(a) ELSE a = Core) /\ DispatchStart(c, a) /\ Track /\ Unclean /\ Log /\ UNCHANGED <<bot, yt, cfg>>
    \/ \E o \in Outcomes : PluginReturns(o) /\ Track /\ Unclean /\ Log /\ UNCHANGED <<bot, yt, cfg>>
    \/ DispatchReturn /\ Track /\ Unclean /\ Log /\ UNCHANGED <<bot, yt, cfg>>
    \/ \E n \in Names : Only(n) /\ enable_plugin(n) /\ Track /\ Unclean /\ Log /\ UNCHANGED <<bot, yt, cfg>>
    \/ \E n \in Names : Only(n) /\ disable_plugin(n) /\ Track /\ Unclean /\ Log /\ UNCHANGED <<bot, yt, cfg>>

InitToggle == Init /\ \A n \in Names : file[n].q = "ok"

SpecToggle == InitToggle /\ [][NextToggle]_vars

\* The life of the plugin objects: loads, reloads, unloads and the
\* manager's cleanup, with initialize and cleanup methods that may raise
NextLife ==
    \/ \E n \in Names : DiscoverNext(n) /\ UNCHANGED trace /\ Count /\ Log /\ UNCHANGED <<bot, yt, cfg>>
    \/ DiscoverEnd /\ UNCHANGED trace /\ Count /\ Log /\ UNCHANGED <<bot, yt, cfg>>
    \/ \E n \in Names, q \in {"ok", "init_raise"} :
           /\ events < MaxEvents
           /\ FsModify(n, q, Later) /\ UNCHANGED <<burst, trace>> /\ Count /\ Log /\ UNCHANGED <<bot, yt, cfg>>
    \/ \E n \in Names : events < MaxEvents /\ FsDelete(n) /\ UNCHANGED trace /\ Count /\ Log /\ UNCHANGED <<bot, yt, cfg>>
    \/ TaskStart /\ UNCHANGED trace /\ Count /\ Log /\ UNCHANGED <<bot, yt, cfg>>
    \/ \E i \in 1..Len(tasks), raised \in BOOLEAN :
           CleanupReturns(i, raised) /\ UNCHANGED trace /\ Count /\ Log /\ UNCHANGED <<bot, yt, cfg>>
    \/ \E i \in 1..Len(tasks) : InitializeReturns(i) /\ UNCHANGED trace /\ Count /\ Log /\ UNCHANGED <<bot, yt, cfg>>
    \/ \E i \in 1..Len(tasks), raised \in BOOLEAN :
           OldCleanupReturns(i, raised) /\ UNCHANGED trace /\ Count /\ Log /\ UNCHANGED <<bot, yt, cfg>>
    \/ \E i \in 1..Len(tasks) : TaskReturn(i) /\ UNCHANGED trace /\ Count /\ Log /\ UNCHANGED <<bot, yt, cfg>>
    \/ cleanup /\ UNCHANGED trace /\ Count /\ Log /\ UNCHANGED <<bot, yt, cfg>>
    \/ \E i \in 1..Len(tasks), raised \in BOOLEAN :
           AllCleanupReturns(i, raised) /\ UNCHANGED trace /\ Count /\ Log /\ UNCHANGED <<bot, yt, cfg>>
    \/ \E n \in Names : enable_plugin(n) /\ UNCHANGED trace /\ Count /\ Log /\ UNCHANGED <<bot, yt, cfg>>
    \/ \E n \in Names : disable_plugin(n) /\ UNCHANGED trace /\ Count /\ Log /\ UNCHANGED <<bot, yt, cfg>>

InitLife == Init /\ \A n \in Names : file[n].q \in {"ok", "init_raise"}

SpecLife == InitLife /\ [][NextLife]_vars

\* The host bot alone, its database not enabled: it logs in, then text
\* events arrive one after another
NextHost ==
    \/ \E r \in Responses : login(r)
    \/ \E ev \in Texts : text_message_callback(ev)
    \/ \E elapsed \in BOOLEAN : MessageStored(elapsed, FALSE)
    \/ \E r \in Responses : NameChecked(r)
    \/ \E r \in Responses : NameRefreshed(r)
    \/ Returned

InitHost == Init /\ \A n \in Names : file[n].q = "ok"

SpecHost == InitHost /\ [][NextHost]_vars

\* The host bot with its database: as before, and each incoming message
\* is stored or, when the database is not enabled or fails, is not
NextStore ==
    \/ \E r \in Responses : login(r)
    \/ \E ev \in Texts : text_message_callback(ev)
    \/ \E elapsed, result \in BOOLEAN : MessageStored(elapsed, result)
    \/ \E r \in Responses : NameChecked(r)
    \/ \E r \in Responses : NameRefreshed(r)
    \/ Returned

SpecStore == InitHost /\ [][NextStore]_vars

\* a command word that no plugin claims, and the text events that carry it
Unclaimed == "foo"

Unanswerable == {ev \in Texts : ev.body \in {Foo, EditMark \o Foo} /\ ~ev.own}

Named == {[kind |-> "ok", displayname |-> Boo]}

\* Commands that nobody claims: the manager discovers its plugins, plugins
\* are disabled and enabled, commands are dispatched, and beside it the
\* host bot, known as "Boo", receives text events
NextUnknown ==
    \/ \E n \in Names : DiscoverNext(n) /\ UNCHANGED trace /\ Uncounted /\ UNCHANGED <<bot, yt, cfg>>
    \/ DiscoverEnd /\ UNCHANGED trace /\ Uncounted /\ UNCHANGED <<bot, yt, cfg>>
    \/ \E i \in 1..Len(tasks) : InitializeReturns(i) /\ UNCHANGED trace /\ Uncounted /\ UNCHANGED <<bot, yt, cfg>>
    \/ \E i \in 1..Len(tasks) : TaskReturn(i) /\ UNCHANGED trace /\ Uncounted /\ UNCHANGED <<bot, yt, cfg>>
    \/ \E c \in {Ping, Unclaimed} :
           DispatchStart(c, Core) /\ UNCHANGED trace /\ Uncounted /\ UNCHANGED <<bot, yt, cfg>>
    \/ \E o \in Outcomes : PluginReturns(o) /\ UNCHANGED trace /\ Uncounted /\ UNCHANGED <<bot, yt, cfg>>
    \/ DispatchReturn /\ UNCHANGED trace /\ Uncounted /\ UNCHANGED <<bot, yt, cfg>>
    \/ \E n \in Names : enable_plugin(n) /\ UNCHANGED trace /\ Uncounted /\ UNCHANGED <<bot, yt, cfg>>
    \/ \E n \in Names : disable_plugin(n) /\ UNCHANGED trace /\ Uncounted /\ UNCHANGED <<bot, yt, cfg>>
    \/ \E r \in Named : login(r)
    \/ \E ev \in Unanswerable : text_message_callback(ev)
    \/ MessageStored(FALSE, FALSE)
    \/ \E r \in Named : NameChecked(r)
    \/ Returned

SpecUnknown == InitHost /\ [][NextUnknown]_vars

----------------------------------------------------------------------------
\* The transcript cache of the host bot, of YouTubeProcessor or of
\* YouTubePlugin: transcripts are cached for the rooms in any order
NextCache == \E url \in Urls, room_id \in Rooms : cache_transcript(url, room_id)

InitCache ==
    /\ InitManager
    /\ \A n \in Names : file[n].q = "ok"
    /\ yt \in {YouTube(kind) : kind \in Caches}
    /\ cfg = ConfigManager(Shipped, NoFile)

SpecCache == InitCache /\ [][NextCache]_vars

\* ConfigManager: settings are set one after another, and between the
\* calls the operator may edit or remove the file
NextConfig ==
    \/ \E p \in ConfiguredPlugins, s \in Settings, v \in Values : set_plugin_setting(p, s, v)
    \/ \E content \in Edits : EditFile(content)

InitConfig ==
    /\ InitManager
    /\ \A n \in Names : file[n].q = "ok"
    /\ yt = YouTube("bot")
    /\ cfg \in {ConfigManager(content, NoFile) : content \in Edits}

SpecConfig == InitConfig /\ [][NextConfig]_vars

----------------------------------------------------------------------------
\* Properties

Loadable(f) == f.exists /\ f.q \in {"ok", "two_classes"}

Broken == {n \in Names : ~Loadable(file[n])}

\* C3: when discovery has run over the directories and exactly one of them
\* failed to load, every other plugin is registered and has True in the
\* returned mapping, the failing one has False there, is recorded in
\* failed_plugins and is not registered.
C3_DiscoveryIsolatesFailure ==
    (disc.pc = "done" /\ Cardinality(Broken) = 1) =>
        \A n \in Names :
            IF n \in Broken
            THEN /\ disc.results[n] = "False"
                 /\ failed_plugins[n] # NoError
                 /\ ~Has(plugins, n)
            ELSE /\ disc.results[n] = "True"
                 /\ Has(plugins, n)

\* C3 witness: discovery is over, the directory visited first is the one
\* that failed, and the directories after it are registered.
C3_Witness ==
    /\ disc.pc = "done"
    /\ Broken = {disc.order[1]}
    /\ \A n \in Names \ Broken : Has(plugins, n) /\ disc.results[n] = "True"
    /\ failed_plugins[disc.order[1]] # NoError

\* the tasks that are reloading or loading plugin n after a change or a
\* reload command
Reloading(n) ==
    {i \in 1..Len(tasks) : tasks[i].name = n /\ tasks[i].kind \in {"change", "cmd"}
                           /\ tasks[i].pc # "done"}

\* C1: a dispatch in which a plugin's handle_command raised ends by
\* returning None or the reply of a plugin that claims the command; it does
\* not raise.
C1_DispatchNeverRaises ==
    (disp.pc = "done" /\ disp.raised) =>
        \/ disp.kind = "none"
        \/ disp.kind = "reply" /\ can_handle(disp.cur, disp.cmd)

\* C2: when a reload of a registered plugin has failed, by the watcher or
\* by reload_plugin, the plugin object registered before is still the one
\* registered, enabled as before.
C2_FailedReloadKeepsPlugin ==
    \A i \in 1..Len(tasks) :
        (tasks[i].pc = "done" /\ tasks[i].kind \in {"change", "cmd"}
            /\ IsLive(tasks[i].had) /\ ~tasks[i].res)
        => Get(plugins, tasks[i].name) = tasks[i].had

\* the position of a plugin object in the registry the dispatch started with
Pos(id) == CHOOSE i \in 1..Len(trace.snap) : trace.snap[i] = id

Known(id) == \E i \in 1..Len(trace.snap) : trace.snap[i] = id

\* C4: a finished dispatch called the plugins one after another in
\* registration order and ended either with the reply of the last one it
\* called or, after the last of them raised or returned no reply, with None.
C4_DispatchInOrder ==
    disp.pc = "done" =>
        /\ disp.kind \in {"reply", "none"}
        /\ disp.kind = "reply" =>
               trace.calls # <<>> /\ trace.calls[Len(trace.calls)] = Id(disp.cur)
        /\ \A i, j \in 1..Len(trace.calls) :
               (i < j /\ Known(trace.calls[i]) /\ Known(trace.calls[j]))
               => Pos(trace.calls[i]) < Pos(trace.calls[j])

\* a command that no registered plugin but n claims
OnlyBy(c, n) ==
    /\ c \in get_commands(n)
    /\ \A i \in 1..Len(plugins) :
           (IsLive(plugins[i]) /\ plugins[i].name # n) => c \notin get_commands(plugins[i].name)

\* C5 as stated: from disable_plugin(n) returning True until enable_plugin(n)
\* is called, n is a key of plugins and get_all_commands maps no command to n.
C5_DisabledUntilEnabled ==
    \A id \in off :
        /\ Has(plugins, id[1])
        /\ \A c \in Commands : get_all_commands[c] # id[1]

\* the plugin object disabled as id is still the one registered
StillRegistered(id) == Has(plugins, id[1]) /\ Id(Get(plugins, id[1])) = id

\* C5 amended: from disable_plugin(n) returning True until enable_plugin(n)
\* is called or the plugin object is unloaded or replaced by a reload, the
\* object is not enabled, get_all_commands maps no command to n, no dispatch
\* calls its handle_command, and a dispatch of a command only n claims
\* returns None.
C5_DisabledWhileRegistered ==
    /\ [](\A id \in off : StillRegistered(id) =>
              /\ ~Get(plugins, id[1]).enabled
              /\ \A c \in Commands : get_all_commands[c] # id[1])
    /\ [][/\ Invokes => Id(disp'.cur) \notin off
          /\ \A id \in off :
                 (disp.pc = "idle" /\ disp'.pc # "idle" /\ StillRegistered(id)
                     /\ OnlyBy(disp'.cmd, id[1]))
                 => (disp'.pc = "done" /\ disp'.kind = "none")]_vars

\* C5 witness: a dispatch of a command that only a disabled, still
\* registered plugin claims has returned None.
C5_Witness ==
    /\ disp.pc = "done"
    /\ disp.kind = "none"
    /\ \E id \in off : StillRegistered(id) /\ OnlyBy(disp.cmd, id[1])

\* C6: a dispatch completes without raising, and the plugin objects it
\* called are objects that were registered when it began, whatever reload or
\* unload ran while it was suspended in a plugin.
C6_InFlightDispatchCompletes ==
    disp.pc = "done" =>
        /\ disp.kind # "error"
        /\ \A i \in 1..Len(trace.calls) : Known(trace.calls[i])

\* C7: the modification events of a burst that arrive less than
\* debounce_time after its first event cause exactly one reload attempt.
C7_OneReloadPerWindow ==
    \A n \in Names : burst[n].n >= 1 => burst[n].reloads = 1

\* C7 witness: three events on one plugin.py inside one debounce window.
C7_Witness ==
    \E n \in Names : burst[n].n >= 3 /\ burst[n].reloads = 1

\* no coroutine of the loop is scheduled or running for plugin n
Settled(n) ==
    /\ \A i \in 1..Len(queue) : queue[i].name # n
    /\ \A i \in 1..Len(tasks) : tasks[i].name # n

\* C8: once the reloads of a burst of modification events are over, the
\* registered version of the plugin is the one the last modification wrote.
C8_LastModificationRegistered ==
    \A n \in Names :
        (last_modified[n] # None /\ Settled(n) /\ Has(plugins, n))
        => Get(plugins, n).ver = file[n].ver

\* C9: no name is a key of both plugins and failed_plugins.
C9_LoadedNotFailed ==
    \A n \in Names : ~(Has(plugins, n) /\ failed_plugins[n] # NoError)

\* C10: no two reloads of the same plugin name are in progress at once.
C10_OneReloadPerName ==
    \A n \in Names : Cardinality(Reloading(n)) <= 1

\* C11: the cleanup of a plugin object is called at most once, whatever
\* loads, reloads, unloads, deletions and manager cleanup run and overlap,
\* and whether or not an earlier call raised.
C11_CleanupAtMostOnce == \A id \in DOMAIN cleaned : cleaned[id] <= 1

\* C12: no exception a plugin's initialize or cleanup raised leaves an
\* operation of the manager.
C12_NoPluginExceptionEscapes == \A i \in 1..Len(tasks) : ~tasks[i].exc

\* the registered, enabled plugins that claim command c
Claimers(c) ==
    {i \in 1..Len(plugins) :
        IsLive(plugins[i]) /\ plugins[i].enabled /\ can_handle(plugins[i], c)}

\* the plugins that would answer command c
Answerers(c) == {plugins[i].name : i \in Claimers(c)}

\* when the key n of plugins was last inserted
AddedPos(n) ==
    CHOOSE i \in 1..Len(added) :
        added[i] = n /\ \A j \in (i + 1)..Len(added) : added[j] # n

FirstAdded(S) == CHOOSE n \in S : \A m \in S : AddedPos(n) <= AddedPos(m)

LastAdded(S) == CHOOSE n \in S : \A m \in S : AddedPos(m) <= AddedPos(n)

\* C13: when two or more registered, enabled plugins claim a command, a
\* dispatch of it calls the one whose name was added to the registry
\* first, and the reply of the plugin called is the reply of the dispatch.
C13_FirstAddedAnswers ==
    [][/\ (disp.pc = "idle" /\ disp'.pc # "idle"
            /\ Cardinality(Answerers(disp'.cmd)) >= 2)
           => /\ disp'.pc = "await"
              /\ disp'.cur.name = FirstAdded(Answerers(disp'.cmd))
       /\ (disp.pc = "await" /\ disp'.pc = "done" /\ disp'.kind = "reply")
           => disp'.cur = disp.cur]_vars

\* the commands some registered, enabled plugin claims
Claimed ==
    {c \in Commands : \E i \in 1..Len(plugins) :
        IsLive(plugins[i]) /\ plugins[i].enabled /\ c \in get_commands(plugins[i].name)}

\* C13 witness: the plugin discovery registered first has been unloaded and
\* registered again behind the other one, both claim the command and are
\* enabled, and the other one has answered.
C13_Witness ==
    /\ disp.pc = "done"
    /\ disp.kind = "reply"
    /\ Cardinality(Answerers(disp.cmd)) >= 2
    /\ disc.order[1] \in Answerers(disp.cmd)
    /\ disp.cur.name = FirstAdded(Answerers(disp.cmd))
    /\ AddedPos(disp.cur.name) < AddedPos(disc.order[1])
    /\ ~disp.raised

\* C14: the keys of get_all_commands() are the commands claimed by the
\* registered, enabled plugins, and each is mapped to the plugin, among
\* those that claim it, whose name was added to the registry last.
C14_LastAddedOwnsCommand ==
    \A c \in Commands :
        /\ (get_all_commands[c] # 0) <=> (c \in Claimed)
        /\ c \in Claimed => get_all_commands[c] = LastAdded(Answerers(c))

\* C14 witness: two enabled plugins claim the command every plugin claims,
\* and it is mapped to the plugin discovery registered first, which has
\* been unloaded and registered again since.
C14_Witness ==
    /\ Cardinality(Answerers(Ping)) >= 2
    /\ get_all_commands[Ping] = disc.order[1]

\* the sources in which the search for the plugin class does not find
\* exactly one subclass of BotPlugin
NotOneClass == {"no_class", "two_classes"}

\* C15: a load of a source that defines no BotPlugin subclass, or more than
\* one, has returned False, recorded an error in failed_plugins and
\* registered nothing.
C15_NotOneClassFails ==
    \A n \in Names :
        (disc.results[n] # "absent" /\ file[n].q \in NotOneClass) =>
            /\ disc.results[n] = "False"
            /\ failed_plugins[n] # NoError
            /\ ~Has(plugins, n)

\* the callback has tested the display name for the event in hand
Tested == bot.pc \in {"done", "cmd_refresh"} /\ bot.text_messages > 0 /\ ~bot.ev.own

\* C16: when text_message_callback comes to its test of the display name
\* (after the refresh it may have made itself) and the bot knows none, the
\* callback returns without handling a command and without sending a
\* message; an event ignored in this way is never answered later, also not
\* once the display name is known.
C16_NoNameNoAnswer ==
    /\ [](bot.dropped \cap bot.answered = {})
    /\ [][/\ bot.dropped \subseteq bot'.dropped
          /\ (/\ bot.pc \in {"store", "name_check"}
              /\ ~bot.ev.own
              /\ bot'.pc \notin {"store", "name_check"}
              /\ bot'.current_display_name = NoName)
             => /\ bot'.pc = "done"
                /\ bot'.text_messages \in bot'.dropped
                /\ ~bot'.found
                /\ bot'.out = <<>>]_vars

\* C16 witness: the first event was ignored for want of a display name, the
\* name is known now and the second event has been answered with a message.
C16_Witness ==
    /\ bot.pc = "done"
    /\ 1 \in bot.dropped
    /\ 2 \in bot.answered
    /\ bot.current_display_name # NoName
    /\ bot.out # <<>>

\* C17: under the display name "Boo" a body is handed to handle_bot_command
\* if and only if, ignoring case, it starts with "boo:"; "boo: help",
\* "BOO: help" and "boo:help" run help with empty arguments; "boot: help"
\* and a body without a colon run nothing.
C17_BooPrefix ==
    (Tested /\ bot.under = Boo) =>
        /\ bot.found <=> startswith(lower(bot.ev.body), CommandPrefix(Boo))
        /\ bot.ev.body \in {HelpSpaced, HelpUpper, HelpTight}
               => bot.handler = "help" /\ bot.arg = <<>>
        /\ bot.ev.body \in {BootHelp, NoColon} => ~bot.found

\* C18: an event whose body is "* " followed by a body b that starts with
\* the bot's prefix comes to the same command with the same argument as a
\* fresh event with body b.
C18_EditParsedAsFresh ==
    \A b \in Fresh :
        (/\ Tested
         /\ bot.under # NoName
         /\ bot.ev.body = EditMark \o b
         /\ startswith(lower(b), CommandPrefix(bot.under)))
        => [found |-> bot.found, handler |-> bot.handler, arg |-> bot.arg]
               = Parsed(bot.under, b)

\* C20 as stated: update_command_prefix has returned True and stored the
\* fetched name when the transport returned a non-empty display name; in
\* every other case it has returned False and stored None.
C20_FetchedNameOrNone ==
    bot.ret # "unset" =>
        IF bot.resp.kind = "ok" /\ bot.resp.displayname # <<>>
        THEN bot.ret = "True" /\ bot.current_display_name = bot.resp.displayname
        ELSE bot.ret = "False" /\ bot.current_display_name = NoName

\* C20 amended: update_command_prefix has returned True and stored the
\* fetched name without its surrounding whitespace when the transport
\* returned a display name that is not empty once trimmed; in every other
\* case it has returned False and stored None.
C20_TrimmedNameOrNone ==
    bot.ret # "unset" =>
        IF bot.resp.kind = "ok" /\ strip(bot.resp.displayname) # <<>>
        THEN bot.ret = "True" /\ bot.current_display_name = strip(bot.resp.displayname)
        ELSE bot.ret = "False" /\ bot.current_display_name = NoName

\* C20 witness: a name was known, the fetch failed, and
\* update_command_prefix returned False and left no name.
C20_Witness ==
    /\ bot.ret = "False"
    /\ bot.before # NoName
    /\ bot.current_display_name = NoName

\* no test of handle_bot_command's chain accepts the command
Unhandled(name, command) ==
    \A i \in 1..Len(Branches) : ~Matches(name, command, Branches[i])

\* C19: a dispatch of a command that no registered enabled plugin claims
\* returns None, and for a command addressed to the bot that none of its
\* built-in handlers accepts the host sends exactly one message, the
\* "Unknown command" message, to the room of the event.
C19_UnknownCommand ==
    /\ [][(disp.pc = "idle" /\ disp'.pc # "idle" /\ Claimers(disp'.cmd) = {})
          => (disp'.pc = "done" /\ disp'.kind = "none")]_vars
    /\ []((/\ Tested
           /\ bot.found
           /\ Unhandled(bot.under, Recognise(bot.under, bot.ev.body).command))
          => /\ Len(bot.out) = 1
             /\ bot.out[1].kind = "unknown"
             /\ bot.out[1].room = bot.ev.room)

\* C19 witness: a dispatch of the command nobody claims has returned None,
\* and the host has answered the text event that carries it with the one
\* "Unknown command" message to the second room.
C19_Witness ==
    /\ disp.pc = "done"
    /\ disp.kind = "none"
    /\ disp.cmd = Unclaimed
    /\ bot.pc = "done"
    /\ bot.ev.body = Foo
    /\ bot.ev.room = "!b"
    /\ Len(bot.out) = 1
    /\ bot.out[1].kind = "unknown"

\* a text event sent by the bot itself has been handled to its end
OwnHandled == bot.pc = "done" /\ bot.text_messages > 0 /\ bot.ev.own

\* C21: a text event whose sender is the bot's own user id is neither
\* stored in the database nor processed as a command
C21_OwnNeitherStoredNorProcessed ==
    OwnHandled => /\ bot.text_messages \notin bot.db
                  /\ bot.text_messages \notin bot.answered
                  /\ ~bot.found /\ bot.out = <<>>

\* the plugin objects held in the registry
Held == {plugins[k] : k \in {j \in 1..Len(plugins) : IsLive(plugins[j])}}

\* C22: every plugin object held in the registry has had initialize called
\* once, with a true result, before it was added (no coroutine is still
\* awaiting its initialize), and its cleanup has not been called
C22_HeldInitializedNotCleaned ==
    \A e \in Held :
        /\ \A i \in 1..Len(tasks) : tasks[i].pc = "init" => Id(tasks[i].inst) # Id(e)
        /\ cleaned[Id(e)] = 0

\* a coroutine of discovery, of the file-change handling or of reload_plugin
\* whose load attempt has just failed after the plugin object was built
FailedLoad(t) == t.pc = "done" /\ t.kind # "delete" /\ ~t.res /\ IsLive(t.inst)

\* the same, its load attempt has just succeeded
SucceededLoad(t) == t.pc = "done" /\ t.kind # "delete" /\ t.res

\* C23: after a failed load attempt for plugin n failed_plugins holds the
\* error under the key n and the attempt has added no entry to plugins;
\* after a successful load attempt for n failed_plugins has no entry under n
C23_LoadAttemptRecordedUnderName ==
    \A i \in 1..Len(tasks) :
        /\ FailedLoad(tasks[i]) =>
               /\ failed_plugins[tasks[i].name] # NoError
               /\ Id(Get(plugins, tasks[i].name)) # Id(tasks[i].inst)
        /\ SucceededLoad(tasks[i]) => failed_plugins[tasks[i].name] = NoError

\* the handling of a deletion event for the registered plugin object id has
\* just finished: unload_plugin has called its cleanup and has returned
DeletionHandled(id) ==
    \E i \in 1..Len(tasks) :
        /\ tasks[i].kind = "delete" /\ tasks[i].pc = "done"
        /\ IsLive(tasks[i].old) /\ Id(tasks[i].old) = id

\* plugin.py of n is gone and its deletion event has been handled: nothing
\* is scheduled or running for n
Deleted(n) ==
    /\ ~file[n].exists
    /\ \A i \in 1..Len(queue) : queue[i].name # n
    /\ \A i \in 1..Len(tasks) : tasks[i].name # n

\* C24: when a deletion event for a registered plugin's plugin.py has been
\* handled (its cleanup has been called), the plugin is not in the registry
\* any more, and no dispatch invokes it from then on
C24_DeletedPluginGone ==
    /\ [](\A id \in Names \X (1..MaxGen) :
              DeletionHandled(id) => \A e \in Held : Id(e) # id)
    /\ [][Invokes => ~Deleted(disp'.cur.name)]_vars

\* a reload of a registered plugin has just succeeded
Reloaded(t) == t.pc = "done" /\ t.kind \in {"cmd", "change"} /\ t.res /\ IsLive(t.had)

\* where the key n stands in the registry
Place(n) == CHOOSE i \in 1..Len(plugins) : plugins[i].name = n

\* when the key n of plugins was first inserted: the registration of the
\* first plugin object of that name
FirstPos(n) ==
    CHOOSE i \in 1..Len(added) : added[i] = n /\ \A j \in 1..(i - 1) : added[j] # n

\* the commands the plugins n and m both claim
Shared(n, m) == get_commands(n) \cap get_commands(m)

\* C25: a successful reload of P leaves the dispatch order unchanged.  For
\* the first reload of P and every enabled plugin Q that has been in the
\* registry since its first load and shares a command with P: P stands
\* before Q in the registry after the reload exactly if it was registered
\* before Q, which is the order dispatch tried them in before the reload.
C25_ReloadKeepsDispatchOrder ==
    \A i \in 1..Len(tasks) :
        (Reloaded(tasks[i]) /\ tasks[i].had.gen = 1) =>
            \A e \in Held :
                (e.name # tasks[i].name /\ e.gen = 1 /\ e.enabled
                    /\ Shared(tasks[i].name, e.name) # {})
                => ((Place(tasks[i].name) < Place(e.name))
                        <=> (FirstPos(tasks[i].name) < FirstPos(e.name)))

\* a successful reload of a plugin that was disabled, with no enable_plugin
\* since, has just finished
ReloadedDisabled(t) == Reloaded(t) /\ ~t.had.enabled /\ Id(t.had) \in off

Dropped == bot.pc = "done" /\ ~bot.ev.own /\ bot.text_messages \in bot.dropped

\* C27: a text event from another user that arrives while no display name
\* is known is dropped only after the bot has tried to fetch the display
\* name from the transport, however recent the previous fetch is
C27_FetchBeforeDrop == Dropped => bot.ret # "unset"

\* C28: after any sequence of cache_transcript calls no room's cache holds
\* more than max_cached_transcripts_per_room entries, and a call for one
\* room leaves the cache and the last processed video of every other room
\* as they were.
C28_BoundedPerRoom ==
    /\ [](\A r \in Rooms : Len(yt.transcript_cache[r]) <= max_cached_transcripts_per_room)
    /\ [][\A r \in Rooms :
              r # yt'.room =>
                  /\ yt'.transcript_cache[r] = yt.transcript_cache[r]
                  /\ yt'.last_processed_video[r] = yt.last_processed_video[r]]_vars

\* C28 witness: the last call has removed the oldest entry of its room's
\* cache, which is full, while the cache of another room holds entries too.
C28_Witness ==
    /\ yt.removed > 0
    /\ Len(yt.transcript_cache[yt.room]) = max_cached_transcripts_per_room
    /\ \E r \in Rooms : r # yt.room /\ yt.transcript_cache[r] # <<>>

\* C29: in YouTubePlugin, after any sequence of cache_transcript calls for a
\* room, re-caching included, the url whose transcript handle_youtube_question
\* uses for a question without a URL is the one of the most recent call for
\* that room: the last key of the room's cache is last_processed_video.
C29_LatestIsLastProcessed ==
    yt.kind = "plugin" =>
        \A r \in Rooms : latest_url(r) = yt.last_processed_video[r]

\* the value of a setting of a plugin in the data of a configuration file
Lookup(data, plugin_name, setting) ==
    LET e == data[plugin_name] IN
    IF e.state # "map" THEN NoLimits
    ELSE IF setting = <<"temperature">>
         THEN IF e.temperature = 0 THEN NoLimits ELSE [kind |-> "value", v |-> e.temperature]
    ELSE IF setting = <<"limits">> THEN e.limits
    ELSE IF e.limits.kind = "dict" /\ e.limits.v # 0
         THEN [kind |-> "value", v |-> e.limits.v] ELSE NoLimits

\* the configuration file holds the settings it held before the call, with
\* the requested one set to the requested value
SettingChanged ==
    /\ cfg.config_file.kind = "yaml"
    /\ Lookup(cfg.config_file.data, cfg.plugin_name, cfg.setting)
           = [kind |-> "value", v |-> cfg.value]
    /\ \A q \in ConfiguredPlugins :
           /\ q # cfg.plugin_name => cfg.config_file.data[q] = cfg.before.data[q]
           /\ cfg.before.data[q].state \in {"map", "noconfig"} =>
                  cfg.config_file.data[q].enabled = cfg.before.data[q].enabled
           /\ \A t \in Settings :
                  (q # cfg.plugin_name \/ t[1] # cfg.setting[1]) =>
                      Lookup(cfg.config_file.data, q, t) = Lookup(cfg.before.data, q, t)

\* C30: set_plugin_setting either succeeds, and the configuration file holds
\* the previous settings with exactly the requested one changed, or returns
\* failure, and the configuration file has the content it had before the call.
C30_ChangedOrUntouched ==
    /\ cfg.ret = "True" => SettingChanged
    /\ cfg.ret = "False" => cfg.config_file = cfg.before

============================================================================
